---- MODULE Spec2Model ----
(***************************************************************************)
(* The password vault of chatty-cockpit (the "Password Manager" section of *)
(* the API server): the vault file, the in-memory session map and the      *)
(* express handlers of /api/passwords/*.                                   *)
(*                                                                         *)
(* The server is one node process.  A handler runs without interruption    *)
(* from one `await` to the next; between two awaits of one handler the     *)
(* handlers of other requests run.  File operations are carried out by the *)
(* thread pool at an instant of their own, between the JavaScript step     *)
(* that issues them and the one that continues after them.  A handler is   *)
(* therefore a sequence of steps:                                          *)
(*   Start      the synchronous prefix, up to `await loadPasswordVault()`  *)
(*   Read       the read of the file by the thread pool                    *)
(*   AfterLoad  the continuation after the load, up to the next await      *)
(*   Trunc      fsp.writeFile opens the file with flag 'w' (O_TRUNC)       *)
(*   Write      fsp.writeFile writes the JSON text at offset 0             *)
(*   AfterSave  the continuation after `await savePasswordVault(vault)`    *)
(***************************************************************************)
EXTENDS Integers, Sequences, FiniteSets, TLC

(* ---------------------------------------------------------------- bounds *)

\* Requests accepted in one behaviour.
MaxReqs == 2

\* Concurrent request handlers (slots of the event loop).
Procs == {1, 2}

\* Caller identities (req.user.email).
Users == {"alice", "bob"}

\* The absent value of a request field or entry field (JavaScript undefined).
Undefined == "<undefined>"

\* masterPassword values of setup and unlock requests: missing, too short
\* for setup (and a wrong password for unlock), and an acceptable one.
MasterPasswords == {"", "short", "longsecret1"}

\* Bodies of create requests: a complete one, one without a name, one without
\* a password.
CreateBodies ==
    { [name |-> "GitHub", password |-> "p@ss"],
      [name |-> "",       password |-> "p@ss"],
      [name |-> "GitHub", password |-> ""] }

\* Bodies of update requests: a new name, a new password, an empty name.
UpdateBodies ==
    { [name |-> "GitLab",  password |-> Undefined],
      [name |-> Undefined, password |-> "n3w"],
      [name |-> "",        password |-> Undefined] }

(* ------------------------------------------------------------- constants *)

PASSWORDS_SESSION_EXPIRY == 5 * 60 * 1000

\* The instants at which the clock is read: the start, the last instant of
\* the life of a session stored at the start, and the first instant after it.
Times == {0, PASSWORDS_SESSION_EXPIRY, PASSWORDS_SESSION_EXPIRY + 1}

(* ----------------------------------------------------------------- state *)

VARIABLES
    file,       \* PASSWORDS_FILE on disk
    sessions,   \* passwordSessions: email -> {key, expiresAt}
    now,        \* Date.now()
    proc,       \* per handler slot: position and local variables
    rand,       \* crypto.randomBytes draws made so far (salts, ivs)
    uuids,      \* uuidv4 draws made so far
    reqs,       \* requests accepted so far
    last,       \* history: the request answered last, and its response
    setups,     \* history: setup requests answered {success: true}
    created     \* history: ids of the entries create requests answered

vars == <<file, sessions, now, proc, rand, uuids, reqs, last, setups, created>>

(* ------------------------------------------------------------ primitives *)

Null == [null |-> TRUE]

\* crypto.pbkdf2Sync(password, salt, 100000, 32, 'sha256'): a function of
\* password and salt, taken to be injective.
deriveKey(password, salt) == [kdf |-> "sha256", password |-> password, salt |-> salt]

\* crypto.pbkdf2Sync(password, salt, 100000, 64, 'sha512').toString('hex')
hashMasterPassword(password, salt) == [kdf |-> "sha512", password |-> password, salt |-> salt]

\* AES-256-GCM: the ciphertext is a function of key, iv and plaintext, the
\* tag a function of key, iv and ciphertext.  cipher.getAuthTag() returns the
\* 16 bytes of the tag; a tag value with a smaller len is the string of its
\* first len bytes.
gcmCipher(data, key, iv) == [ct |-> TRUE, key |-> key, iv |-> iv, data |-> data]
gcmTag(encrypted, key, iv) ==
    [tag |-> TRUE, key |-> key, iv |-> iv, encrypted |-> encrypted, len |-> 16]

\* The tag lengths, in bytes, that decipher.setAuthTag accepts for a GCM
\* decipher created without the authTagLength option; any other throws.
GcmTagLengths == {4, 8, 12, 13, 14, 15, 16}

\* encryptData(data, key), with the iv that crypto.randomBytes(16) returned.
encryptData(data, key, iv) ==
    [iv |-> iv,
     authTag |-> gcmTag(gcmCipher(data, key, iv), key, iv),
     encrypted |-> gcmCipher(data, key, iv)]

\* decryptData: decipher.final throws unless the tag verifies: the bytes
\* given to setAuthTag are compared with as many leading bytes of the tag
\* computed over the ciphertext.
decryptOk(encrypted, key, iv, authTag) ==
    /\ authTag.len \in GcmTagLengths
    /\ [authTag EXCEPT !.len = 16] = gcmTag(encrypted, key, iv)
decryptData(encrypted, key, iv, authTag) == encrypted.data

\* Length of JSON.stringify(entries): the brackets, and per entry the fixed
\* part (keys, uuid, timestamps) and the text of its fields.
EntryFixedLen == 161
OptionalLen(s, keyLen) == IF s = Undefined THEN 0 ELSE keyLen + Len(s)
entryLen(e) ==
    EntryFixedLen + Len(e.name) + Len(e.username) + Len(e.password)
        + OptionalLen(e.url, 9) + OptionalLen(e.notes, 11)
RECURSIVE entriesLen(_)
entriesLen(entries) ==
    IF entries = <<>> THEN 0
    ELSE entryLen(Head(entries)) + entriesLen(Tail(entries))
jsonLen(entries) ==
    IF entries = <<>> THEN 2 ELSE 2 + entriesLen(entries) + (Len(entries) - 1)

\* Length of the file text JSON.stringify(vault, null, 2): it grows with the
\* hex ciphertext, two characters per plaintext byte; the rest is fixed.
vaultLen(vault) == 2 * jsonLen(vault.encryptedData.data)

(* ------------------------------------------------------------- the file *)

\* No file: existsSync(PASSWORDS_FILE) is false.
NoFile == [exists |-> FALSE, size |-> 0, vault |-> Null]

\* The file just opened with O_TRUNC: empty.
Truncated == [exists |-> TRUE, size |-> 0, vault |-> Null]

\* The file after `text` of a vault has been written at offset 0 over what
\* the file held: a shorter text leaves the tail of the longer one behind it,
\* and the result is no JSON text (vault = Null).
Written(f, vault) ==
    IF vaultLen(vault) >= f.size
    THEN [exists |-> TRUE, size |-> vaultLen(vault), vault |-> vault]
    ELSE [exists |-> TRUE, size |-> f.size, vault |-> Null]

\* loadPasswordVault on the file content `f` it read: JSON.parse throws on an
\* empty or garbled text, the catch logs, and null is returned.
loadPasswordVault(f) == IF f.exists /\ f.vault # Null THEN f.vault ELSE Null

(* ------------------------------------------------------------- sessions *)

\* An entry of the map is {key, expiresAt}; storedAt is history: the instant
\* at which setPasswordSession stored it.
NoSession == [present |-> FALSE]

\* The lookup with the comparison `>=`: an entry is dead at its expiry instant.
sessionKey_expiresEarly(s, time, email) ==
    IF s[email].present /\ ~(time >= s[email].expiresAt) THEN s[email].key ELSE Null

\* What getPasswordSession(email) returns on the map s at instant time: the
\* key, or null when there is no entry or `Date.now() > session.expiresAt`.
sessionKey(s, time, email) ==
    IF s[email].present /\ ~(time > s[email].expiresAt) THEN s[email].key ELSE Null

\* A lookup that ignores whose session it is: the key of any live session.
getPasswordSession_anyCaller(email) ==
    LET live == {u \in Users : sessionKey(sessions, now, u) # Null}
    IN  IF live = {} THEN Null ELSE sessionKey(sessions, now, CHOOSE u \in live : TRUE)

\* getPasswordSession(email): the key, or null; an expired entry is deleted.
getPasswordSession(email) == sessionKey(sessions, now, email)

\* A lookup that renews the entry it returns (a sliding expiry).
afterGetPasswordSession_sliding(email) ==
    IF sessions[email].present /\ now > sessions[email].expiresAt
    THEN [sessions EXCEPT ![email] = NoSession]
    ELSE IF sessions[email].present
    THEN [sessions EXCEPT ![email].expiresAt = now + PASSWORDS_SESSION_EXPIRY]
    ELSE sessions

\* The map after getPasswordSession(email): an expired entry is deleted.
afterGetPasswordSession(email) ==
    IF sessions[email].present /\ now > sessions[email].expiresAt
    THEN [sessions EXCEPT ![email] = NoSession]
    ELSE sessions

setPasswordSession(s, email, key) ==
    [s EXCEPT ![email] =
        [present |-> TRUE, key |-> key, expiresAt |-> now + PASSWORDS_SESSION_EXPIRY,
         storedAt |-> now]]

\* A delete that misses the entry (a wrong key): the map is left as it is.
clearPasswordSession_noDelete(s, email) == s

clearPasswordSession(s, email) == [s EXCEPT ![email] = NoSession]

(* ------------------------------------------------------------- handlers *)

NoBody == [masterPassword |-> Undefined, name |-> Undefined, username |-> Undefined,
           password |-> Undefined, url |-> Undefined, notes |-> Undefined]

\* A slot: the handler's position, its request (op, user, body, id) and its
\* local variables key, vault (raw: the file content its load read) and
\* entry; late is history: a setup had been answered {success: true} when
\* this setup request was accepted; io is history: "ok", or which file
\* operation of this request was rejected by the operating system.
Idle == [pc |-> "idle", op |-> "none", user |-> "none", body |-> NoBody, id |-> 0,
         key |-> Null, raw |-> NoFile, vault |-> Null, entry |-> Null, late |-> FALSE,
         io |-> "ok"]

NoRequest == [op |-> "none", user |-> "none", body |-> NoBody, id |-> 0, res |-> Null]

\* res.status(status).json({error}) and res.json(data)
Err(status, error) == [status |-> status, error |-> error, data |-> Null]
Ok(data) == [status |-> 200, error |-> "", data |-> data]

\* A request is taken by the first free slot (the slots are interchangeable).
Free(p) ==
    /\ proc[p].pc = "idle"
    /\ reqs < MaxReqs
    /\ \A q \in Procs : q < p => proc[q].pc # "idle"

Begin(op, user, body, id) ==
    [Idle EXCEPT !.op = op, !.user = user, !.body = body, !.id = id]

\* The handler of slot p sends `res` and ends.
Respond(p, r, res) ==
    /\ proc' = [proc EXCEPT ![p] = Idle]
    /\ last' = [op |-> r.op, user |-> r.user, body |-> r.body, id |-> r.id, res |-> res]

\* The handler of slot p goes on as `r`, waiting at its next await.
Continue(p, r) ==
    /\ proc' = [proc EXCEPT ![p] = r]
    /\ last' = last

\* The clock.  It is advanced between requests: a handler, which takes
\* milliseconds, runs within one of the instants of Times.
Tick ==
    /\ \A p \in Procs : proc[p].pc = "idle"
    /\ \E t \in Times : t > now /\ now' = t
    /\ UNCHANGED <<file, sessions, proc, rand, uuids, reqs, last, setups, created>>

\* The thread pool reads the file for a handler waiting in loadPasswordVault.
Read(p) ==
    /\ proc[p].pc = "read"
    /\ proc' = [proc EXCEPT ![p].pc = "loaded", ![p].raw = file]
    /\ UNCHANGED <<file, sessions, now, rand, uuids, reqs, last, setups, created>>

\* savePasswordVault: ensurePasswordsDir, then fsp.writeFile opens the file.
Trunc(p) ==
    /\ proc[p].pc = "save"
    /\ file' = Truncated
    /\ proc' = [proc EXCEPT ![p].pc = "write"]
    /\ UNCHANGED <<sessions, now, rand, uuids, reqs, last, setups, created>>

\* savePasswordVault: fsp.writeFile writes JSON.stringify(vault, null, 2).
Write(p) ==
    /\ proc[p].pc = "write"
    /\ file' = Written(file, proc[p].vault)
    /\ proc' = [proc EXCEPT ![p].pc = "saved"]
    /\ UNCHANGED <<sessions, now, rand, uuids, reqs, last, setups, created>>

(* ------------------------------------------- GET /api/passwords/status *)

StatusStart(p, user) ==
    /\ Free(p)
    /\ Continue(p, [Begin("status", user, NoBody, 0) EXCEPT !.pc = "read"])
    /\ reqs' = reqs + 1
    /\ UNCHANGED <<file, sessions, now, rand, uuids, setups, created>>

StatusAfterLoad(p) ==
    /\ proc[p].pc = "loaded" /\ proc[p].op = "status"
    /\ LET vault == loadPasswordVault(proc[p].raw)
           session == getPasswordSession(proc[p].user)
       IN  /\ sessions' = afterGetPasswordSession(proc[p].user)
           /\ Respond(p, proc[p], Ok([isSetup |-> vault # Null, isUnlocked |-> session # Null]))
    /\ UNCHANGED <<file, now, rand, uuids, reqs, setups, created>>

(* ------------------------------------------- POST /api/passwords/setup *)

\* The check without its length test: only `!masterPassword`.
weakMasterPassword_noLength(masterPassword) ==
    masterPassword = Undefined \/ masterPassword = ""

\* `!masterPassword || masterPassword.length < 8`
weakMasterPassword(masterPassword) ==
    masterPassword = Undefined \/ masterPassword = "" \/ Len(masterPassword) < 8

SetupStart(p, user, masterPassword) ==
    /\ Free(p)
    /\ LET r == Begin("setup", user, [NoBody EXCEPT !.masterPassword = masterPassword], 0)
       IN  IF weakMasterPassword(masterPassword)
           THEN Respond(p, r, Err(400, "Master password must be at least 8 characters"))
           ELSE Continue(p, [r EXCEPT !.pc = "read", !.late = setups > 0])
    /\ reqs' = reqs + 1
    /\ UNCHANGED <<file, sessions, now, rand, uuids, setups, created>>

\* The vault setup builds: a new salt, the key and hash derived from it, and
\* the empty list encrypted under a new iv.
newVault(masterPassword, salt, iv) ==
    LET key == deriveKey(masterPassword, salt)
        enc == encryptData(<<>>, key, iv)
    IN  [salt |-> salt, iv |-> enc.iv, authTag |-> enc.authTag,
         encryptedData |-> enc.encrypted,
         masterPasswordHash |-> hashMasterPassword(masterPassword, salt)]

SetupAfterLoad(p) ==
    /\ proc[p].pc = "loaded" /\ proc[p].op = "setup"
    /\ LET existingVault == loadPasswordVault(proc[p].raw)
           salt == rand + 1
           iv == rand + 2
       IN  IF existingVault # Null
           THEN /\ Respond(p, proc[p], Err(400, "Vault already exists"))
                /\ rand' = rand
           ELSE /\ Continue(p, [proc[p] EXCEPT
                        !.pc = "save",
                        !.key = deriveKey(proc[p].body.masterPassword, salt),
                        !.vault = newVault(proc[p].body.masterPassword, salt, iv)])
                /\ rand' = rand + 2
    /\ UNCHANGED <<file, sessions, now, uuids, reqs, setups, created>>

SetupAfterSave(p) ==
    /\ proc[p].pc = "saved" /\ proc[p].op = "setup"
    /\ sessions' = setPasswordSession(sessions, proc[p].user, proc[p].key)
    /\ Respond(p, proc[p], Ok([success |-> TRUE]))
    /\ setups' = setups + 1
    /\ UNCHANGED <<file, now, rand, uuids, reqs, created>>

(* ------------------------------------------ POST /api/passwords/unlock *)

UnlockStart(p, user, masterPassword) ==
    /\ Free(p)
    /\ LET r == Begin("unlock", user, [NoBody EXCEPT !.masterPassword = masterPassword], 0)
       IN  IF masterPassword = Undefined \/ masterPassword = ""
           THEN Respond(p, r, Err(400, "Master password required"))
           ELSE Continue(p, [r EXCEPT !.pc = "read"])
    /\ reqs' = reqs + 1
    /\ UNCHANGED <<file, sessions, now, rand, uuids, setups, created>>

\* `providedHash !== vault.masterPasswordHash`
passwordMatches(masterPassword, vault) ==
    hashMasterPassword(masterPassword, vault.salt) = vault.masterPasswordHash

UnlockAfterLoad(p) ==
    /\ proc[p].pc = "loaded" /\ proc[p].op = "unlock"
    /\ LET vault == loadPasswordVault(proc[p].raw)
           masterPassword == proc[p].body.masterPassword
       IN  IF vault = Null
           THEN /\ Respond(p, proc[p], Err(400, "Vault not set up"))
                /\ sessions' = sessions
           ELSE IF ~passwordMatches(masterPassword, vault)
           THEN /\ Respond(p, proc[p], Err(401, "Invalid master password"))
                /\ sessions' = sessions
           ELSE /\ sessions' = setPasswordSession(sessions, proc[p].user,
                                                  deriveKey(masterPassword, vault.salt))
                /\ Respond(p, proc[p], Ok([success |-> TRUE]))
    /\ UNCHANGED <<file, now, rand, uuids, reqs, setups, created>>

(* -------------------------------------------- POST /api/passwords/lock *)

\* A lock that also removes the vault file.
Lock_removesFile(p, user) ==
    /\ Free(p)
    /\ sessions' = clearPasswordSession(sessions, user)
    /\ Respond(p, Begin("lock", user, NoBody, 0), Ok([success |-> TRUE]))
    /\ reqs' = reqs + 1
    /\ file' = NoFile
    /\ UNCHANGED <<now, rand, uuids, setups, created>>

Lock(p, user) ==
    /\ Free(p)
    /\ sessions' = clearPasswordSession(sessions, user)
    /\ Respond(p, Begin("lock", user, NoBody, 0), Ok([success |-> TRUE]))
    /\ reqs' = reqs + 1
    /\ UNCHANGED <<file, now, rand, uuids, setups, created>>

(* ------------------------------------------------------------- entries *)

\* `x || ''`-style tests of a request field.
falsy(v) == v = Undefined \/ v = ""

\* `url || undefined`
orUndefined(v) == IF falsy(v) THEN Undefined ELSE v

\* The entry as it is stored, password included.
safeEntry_whole(e) == e

\* `({ password, ...rest }) => rest`
safeEntry(e) ==
    [id |-> e.id, name |-> e.name, username |-> e.username, url |-> e.url,
     notes |-> e.notes, createdAt |-> e.createdAt, updatedAt |-> e.updatedAt]

entryIds(entries) == {entries[i].id : i \in 1..Len(entries)}

\* entries.findIndex(e => e.id === id), 1-based; 0 for -1.
findIndex(entries, id) ==
    IF id \in entryIds(entries)
    THEN CHOOSE i \in 1..Len(entries) :
            /\ entries[i].id = id
            /\ \A j \in 1..(i - 1) : entries[j].id # id
    ELSE 0

\* entries.filter(e => e.id !== id)
RECURSIVE filterOut(_, _)
filterOut(entries, id) ==
    IF entries = <<>> THEN <<>>
    ELSE IF Head(entries).id = id THEN filterOut(Tail(entries), id)
    ELSE <<Head(entries)>> \o filterOut(Tail(entries), id)

\* A decipher whose final() never throws.
vaultDecrypts_unchecked(vault, key) == TRUE

\* decryptData on the three fields of a loaded vault, with a session key.
vaultDecrypts(vault, key) == decryptOk(vault.encryptedData, key, vault.iv, vault.authTag)
vaultEntries(vault, key) == decryptData(vault.encryptedData, key, vault.iv, vault.authTag)

\* A re-encryption that keeps the iv of the loaded record.
reEncrypt_sameIv(vault, entries, key, iv) ==
    LET enc == encryptData(entries, key, vault.iv)
    IN  [vault EXCEPT !.iv = enc.iv, !.authTag = enc.authTag, !.encryptedData = enc.encrypted]

\* The "Re-encrypt" block: the loaded vault object with its iv, authTag and
\* encryptedData assigned from one encryptData call.
reEncrypt(vault, entries, key, iv) ==
    LET enc == encryptData(entries, key, iv)
    IN  [vault EXCEPT !.iv = enc.iv, !.authTag = enc.authTag, !.encryptedData = enc.encrypted]

\* The synchronous prefix shared by the entry handlers: the session check.
EntryStart(p, r, invalid, invalidRes) ==
    /\ Free(p)
    /\ sessions' = afterGetPasswordSession(r.user)
    /\ LET key == getPasswordSession(r.user)
       IN  IF key = Null
           THEN Respond(p, r, Err(401, "Vault locked"))
           ELSE IF invalid
           THEN Respond(p, r, invalidRes)
           ELSE Continue(p, [r EXCEPT !.pc = "read", !.key = key])
    /\ reqs' = reqs + 1

(* --------------------------------------------------- GET /api/passwords *)

ListStart(p, user) ==
    /\ EntryStart(p, Begin("list", user, NoBody, 0), FALSE, Null)
    /\ UNCHANGED <<file, now, rand, uuids, setups, created>>

ListAfterLoad(p) ==
    /\ proc[p].pc = "loaded" /\ proc[p].op = "list"
    /\ LET vault == loadPasswordVault(proc[p].raw)
           key == proc[p].key
       IN  IF vault = Null
           THEN /\ Respond(p, proc[p], Err(400, "Vault not set up"))
                /\ sessions' = sessions
           ELSE IF ~vaultDecrypts(vault, key)
           THEN /\ sessions' = clearPasswordSession(sessions, proc[p].user)
                /\ Respond(p, proc[p], Err(401, "Decryption failed"))
           ELSE LET entries == vaultEntries(vault, key)
                IN  /\ Respond(p, proc[p],
                          Ok([entries |-> [i \in 1..Len(entries) |-> safeEntry(entries[i])]]))
                    /\ sessions' = sessions
    /\ UNCHANGED <<file, now, rand, uuids, reqs, setups, created>>

(* ----------------------------------------------- GET /api/passwords/:id *)

GetStart(p, user, id) ==
    /\ EntryStart(p, Begin("get", user, NoBody, id), FALSE, Null)
    /\ UNCHANGED <<file, now, rand, uuids, setups, created>>

GetAfterLoad(p) ==
    /\ proc[p].pc = "loaded" /\ proc[p].op = "get"
    /\ LET vault == loadPasswordVault(proc[p].raw)
           key == proc[p].key
       IN  IF vault = Null
           THEN /\ Respond(p, proc[p], Err(400, "Vault not set up"))
                /\ sessions' = sessions
           ELSE IF ~vaultDecrypts(vault, key)
           THEN /\ sessions' = clearPasswordSession(sessions, proc[p].user)
                /\ Respond(p, proc[p], Err(401, "Decryption failed"))
           ELSE LET entries == vaultEntries(vault, key)
                    i == findIndex(entries, proc[p].id)
                IN  /\ IF i = 0
                       THEN Respond(p, proc[p], Err(404, "Entry not found"))
                       ELSE Respond(p, proc[p], Ok([entry |-> entries[i]]))
                    /\ sessions' = sessions
    /\ UNCHANGED <<file, now, rand, uuids, reqs, setups, created>>

(* -------------------------------------------------- POST /api/passwords *)

CreateStart(p, user, fields) ==
    /\ EntryStart(p, Begin("create", user,
                           [NoBody EXCEPT !.name = fields.name, !.password = fields.password], 0),
                  falsy(fields.name) \/ falsy(fields.password),
                  Err(400, "Name and password required"))
    /\ UNCHANGED <<file, now, rand, uuids, setups, created>>

newEntry(body, id, time) ==
    [id |-> id,
     name |-> body.name,
     username |-> IF falsy(body.username) THEN "" ELSE body.username,
     password |-> body.password,
     url |-> orUndefined(body.url),
     notes |-> orUndefined(body.notes),
     createdAt |-> time,
     updatedAt |-> time]

CreateAfterLoad(p) ==
    /\ proc[p].pc = "loaded" /\ proc[p].op = "create"
    /\ LET vault == loadPasswordVault(proc[p].raw)
           key == proc[p].key
       IN  IF vault = Null
           THEN /\ Respond(p, proc[p], Err(400, "Vault not set up"))
                /\ UNCHANGED <<sessions, rand, uuids>>
           ELSE IF ~vaultDecrypts(vault, key)
           THEN /\ sessions' = clearPasswordSession(sessions, proc[p].user)
                /\ Respond(p, proc[p], Err(401, "Encryption failed"))
                /\ UNCHANGED <<rand, uuids>>
           ELSE LET entry == newEntry(proc[p].body, uuids + 1, now)
                    entries == Append(vaultEntries(vault, key), entry)
                IN  /\ Continue(p, [proc[p] EXCEPT
                            !.pc = "save",
                            !.entry = entry,
                            !.vault = reEncrypt(vault, entries, key, rand + 1)])
                    /\ uuids' = uuids + 1
                    /\ rand' = rand + 1
                    /\ sessions' = sessions
    /\ UNCHANGED <<file, now, reqs, setups, created>>

(* ----------------------------------------------- PUT /api/passwords/:id *)

UpdateStart(p, user, id, fields) ==
    /\ EntryStart(p, Begin("update", user,
                           [NoBody EXCEPT !.name = fields.name, !.password = fields.password], id),
                  FALSE, Null)
    /\ UNCHANGED <<file, now, rand, uuids, setups, created>>

\* The assignments `if (x !== undefined) entry.x = x` and the updatedAt bump.
applyUpdate(entry, body, time) ==
    [entry EXCEPT
        !.name = IF body.name # Undefined THEN body.name ELSE @,
        !.username = IF body.username # Undefined THEN body.username ELSE @,
        !.password = IF body.password # Undefined THEN body.password ELSE @,
        !.url = IF body.url # Undefined THEN orUndefined(body.url) ELSE @,
        !.notes = IF body.notes # Undefined THEN orUndefined(body.notes) ELSE @,
        !.updatedAt = time]

UpdateAfterLoad(p) ==
    /\ proc[p].pc = "loaded" /\ proc[p].op = "update"
    /\ LET vault == loadPasswordVault(proc[p].raw)
           key == proc[p].key
       IN  IF vault = Null
           THEN /\ Respond(p, proc[p], Err(400, "Vault not set up"))
                /\ UNCHANGED <<sessions, rand>>
           ELSE IF ~vaultDecrypts(vault, key)
           THEN /\ sessions' = clearPasswordSession(sessions, proc[p].user)
                /\ Respond(p, proc[p], Err(401, "Encryption failed"))
                /\ rand' = rand
           ELSE LET old == vaultEntries(vault, key)
                    entryIndex == findIndex(old, proc[p].id)
                IN  IF entryIndex = 0
                    THEN /\ Respond(p, proc[p], Err(404, "Entry not found"))
                         /\ UNCHANGED <<sessions, rand>>
                    ELSE LET entry == applyUpdate(old[entryIndex], proc[p].body, now)
                             entries == [old EXCEPT ![entryIndex] = entry]
                         IN  /\ Continue(p, [proc[p] EXCEPT
                                     !.pc = "save",
                                     !.entry = entry,
                                     !.vault = reEncrypt(vault, entries, key, rand + 1)])
                             /\ rand' = rand + 1
                             /\ sessions' = sessions
    /\ UNCHANGED <<file, now, uuids, reqs, setups, created>>

(* -------------------------------------------- DELETE /api/passwords/:id *)

DeleteStart(p, user, id) ==
    /\ EntryStart(p, Begin("delete", user, NoBody, id), FALSE, Null)
    /\ UNCHANGED <<file, now, rand, uuids, setups, created>>

DeleteAfterLoad(p) ==
    /\ proc[p].pc = "loaded" /\ proc[p].op = "delete"
    /\ LET vault == loadPasswordVault(proc[p].raw)
           key == proc[p].key
       IN  IF vault = Null
           THEN /\ Respond(p, proc[p], Err(400, "Vault not set up"))
                /\ UNCHANGED <<sessions, rand>>
           ELSE IF ~vaultDecrypts(vault, key)
           THEN /\ sessions' = clearPasswordSession(sessions, proc[p].user)
                /\ Respond(p, proc[p], Err(401, "Encryption failed"))
                /\ rand' = rand
           ELSE LET old == vaultEntries(vault, key)
                    entries == filterOut(old, proc[p].id)
                IN  IF Len(entries) = Len(old)
                    THEN /\ Respond(p, proc[p], Err(404, "Entry not found"))
                         /\ UNCHANGED <<sessions, rand>>
                    ELSE /\ Continue(p, [proc[p] EXCEPT
                                !.pc = "save",
                                !.vault = reEncrypt(vault, entries, key, rand + 1)])
                         /\ rand' = rand + 1
                         /\ sessions' = sessions
    /\ UNCHANGED <<file, now, uuids, reqs, setups, created>>

(* ------------------- the continuation after `await savePasswordVault` *)

\* create and update answer the entry without its password, delete answers
\* {success: true}.
EntryAfterSave(p) ==
    /\ proc[p].pc = "saved" /\ proc[p].op \in {"create", "update", "delete"}
    /\ Respond(p, proc[p],
               IF proc[p].op = "delete"
               THEN Ok([success |-> TRUE])
               ELSE Ok([entry |-> safeEntry(proc[p].entry)]))
    /\ created' = IF proc[p].op = "create" THEN created \cup {proc[p].entry.id} ELSE created
    /\ UNCHANGED <<file, sessions, now, rand, uuids, reqs, setups>>

(* -------------------------------------------------------- initial states *)

\* The server has just started and no vault has ever been set up.
InitFresh ==
    /\ file = NoFile
    /\ sessions = [u \in Users |-> NoSession]
    /\ now = 0
    /\ proc = [p \in Procs |-> Idle]
    /\ rand = 0
    /\ uuids = 0
    /\ reqs = 0
    /\ last = NoRequest
    /\ setups = 0
    /\ created = {}

\* The setup request that the set-up initial state has behind it: alice's,
\* which drew salt 1 and iv 2.
FirstSetup == Begin("setup", "alice", [NoBody EXCEPT !.masterPassword = "longsecret1"], 0)
FirstKey == deriveKey("longsecret1", 1)
FirstVault == newVault("longsecret1", 1, 2)

\* The create request that the set-up initial state has behind it.
FirstCreate == Begin("create", "alice", [NoBody EXCEPT !.name = "GitHub", !.password = "p@ss"], 0)
FirstEntry == newEntry(FirstCreate.body, 1, 0)

\* alice has set the vault up and created one entry (uuid 1, iv 3).
InitOneEntry ==
    /\ now = 0
    /\ file = Written(Truncated, reEncrypt(FirstVault, <<FirstEntry>>, FirstKey, 3))
    /\ sessions = setPasswordSession([u \in Users |-> NoSession], "alice", FirstKey)
    /\ proc = [p \in Procs |-> Idle]
    /\ rand = 3
    /\ uuids = 1
    /\ reqs = 0
    /\ last = [op |-> "create", user |-> "alice", body |-> FirstCreate.body, id |-> 0,
               res |-> Ok([entry |-> safeEntry(FirstEntry)])]
    /\ setups = 1
    /\ created = {1}

\* alice and bob sent setup at the same time to the fresh server: both loads
\* found no file, alice drew salt 1 and iv 2, bob salt 3 and iv 4, both writes
\* were done and bob's was the later one.  Both were answered {success: true}
\* and both have a session; the file is bob's vault.
RacedKey == deriveKey("longsecret1", 3)
RacedVault == newVault("longsecret1", 3, 4)
InitTwoSetups ==
    /\ now = 0
    /\ file = Written(Truncated, RacedVault)
    /\ sessions = setPasswordSession(
                     setPasswordSession([u \in Users |-> NoSession], "alice", FirstKey),
                     "bob", RacedKey)
    /\ proc = [p \in Procs |-> Idle]
    /\ rand = 4
    /\ uuids = 0
    /\ reqs = 0
    /\ last = [op |-> "setup", user |-> "bob", body |-> FirstSetup.body, id |-> 0,
               res |-> Ok([success |-> TRUE])]
    /\ setups = 2
    /\ created = {}

\* A behaviour starts in one of two states the server reaches from its start:
\* no vault, or a vault with one entry and its owner unlocked.
Init == InitFresh \/ InitOneEntry

\* Ids a request can name: those issued so far, and one never issued.
RequestIds == 0..uuids

Next ==
    \/ Tick
    \/ \E p \in Procs : Read(p)
    \/ \E p \in Procs : Trunc(p)
    \/ \E p \in Procs : Write(p)
    \/ \E p \in Procs, u \in Users : StatusStart(p, u)
    \/ \E p \in Procs : StatusAfterLoad(p)
    \/ \E p \in Procs, u \in Users, m \in MasterPasswords : SetupStart(p, u, m)
    \/ \E p \in Procs : SetupAfterLoad(p)
    \/ \E p \in Procs : SetupAfterSave(p)
    \/ \E p \in Procs, u \in Users, m \in MasterPasswords : UnlockStart(p, u, m)
    \/ \E p \in Procs : UnlockAfterLoad(p)
    \/ \E p \in Procs, u \in Users : Lock(p, u)
    \/ \E p \in Procs, u \in Users : ListStart(p, u)
    \/ \E p \in Procs : ListAfterLoad(p)
    \/ \E p \in Procs, u \in Users, id \in RequestIds : GetStart(p, u, id)
    \/ \E p \in Procs : GetAfterLoad(p)
    \/ \E p \in Procs, u \in Users, f \in CreateBodies : CreateStart(p, u, f)
    \/ \E p \in Procs : CreateAfterLoad(p)
    \/ \E p \in Procs, u \in Users, id \in RequestIds, f \in UpdateBodies :
          UpdateStart(p, u, id, f)
    \/ \E p \in Procs : UpdateAfterLoad(p)
    \/ \E p \in Procs, u \in Users, id \in RequestIds : DeleteStart(p, u, id)
    \/ \E p \in Procs : DeleteAfterLoad(p)
    \/ \E p \in Procs : EntryAfterSave(p)

Spec == Init /\ [][Next]_vars

\* The same server followed from its start only.
SpecFresh == InitFresh /\ [][Next]_vars

(* ---------------------------------------- POST /api/passwords/generate *)

\* The four strings the charset is put together from.
Lowercase ==
    <<"a", "b", "c", "d", "e", "f", "g", "h", "i", "j", "k", "l", "m", "n",
      "o", "p", "q", "r", "s", "t", "u", "v", "w", "x", "y", "z">>
Uppercase ==
    <<"A", "B", "C", "D", "E", "F", "G", "H", "I", "J", "K", "L", "M", "N",
      "O", "P", "Q", "R", "S", "T", "U", "V", "W", "X", "Y", "Z">>
Digits ==
    <<"0", "1", "2", "3", "4", "5", "6", "7", "8", "9">>
Symbols ==
    <<"!", "@", "#", "$", "%", "^", "&", "*", "(", ")", "_", "+", "-", "=",
      "[", "]", "{", "}", "|", ";", ":", ",", ".", "<", ">", "?">>

\* Bodies of generate requests: empty, a length alone, or all four options.
GenerateKeys == {"length", "includeUppercase", "includeNumbers", "includeSymbols"}
Lengths == {-5, 0, 7, 8, 12, 128, 200}
GenerateBodies ==
    { [k \in K |-> CASE k = "length" -> n
                     [] k = "includeUppercase" -> u
                     [] k = "includeNumbers" -> d
                     [] k = "includeSymbols" -> y] :
        K \in {{}, {"length"}, GenerateKeys},
        n \in Lengths, u \in BOOLEAN, d \in BOOLEAN, y \in BOOLEAN }

\* What crypto.randomBytes returns is drawn from the byte sequences that
\* start at `seed` and go up by `stride` (mod 256).
Seeds == {0, 255}
Strides == {1, 37}
randomBytes(seed, stride, size) == [i \in 1..size |-> (seed + (i - 1) * stride) % 256]

\* `const { x = dflt } = req.body`: the default is taken when x is left out.
option(body, k, dflt) == IF k \in DOMAIN body THEN body[k] ELSE dflt

\* `parseInt(length) || 16` on an integer: 0 is falsy.
parseIntOr16(length) == IF length = 0 THEN 16 ELSE length

Min(a, b) == IF a < b THEN a ELSE b
Max(a, b) == IF a > b THEN a ELSE b

\* `Math.min(Math.max(parseInt(length) || 16, 8), 128)`
passwordLength(body) == Min(Max(parseIntOr16(option(body, "length", 16)), 8), 128)

\* A charset whose symbols are appended whatever includeSymbols is.
generateCharset_alwaysSymbols(includeUppercase, includeNumbers, includeSymbols) ==
    Lowercase \o (IF includeUppercase THEN Uppercase ELSE <<>>)
              \o (IF includeNumbers THEN Digits ELSE <<>>)
              \o Symbols

\* The charset: lowercase, and each class whose flag is set.
generateCharset(includeUppercase, includeNumbers, includeSymbols) ==
    Lowercase \o (IF includeUppercase THEN Uppercase ELSE <<>>)
              \o (IF includeNumbers THEN Digits ELSE <<>>)
              \o (IF includeSymbols THEN Symbols ELSE <<>>)

\* `charset[i]`, 0-based: undefined past the end of the string.
charAt(charset, i) == IF i >= 0 /\ i < Len(charset) THEN charset[i + 1] ELSE Undefined

\* `charset[randomBytes[i] % charset.length]`
pick(charset, byte) == charAt(charset, byte % Len(charset))

\* The password the loop builds, one character per byte.
generatePassword(body, seed, stride) ==
    LET charset == generateCharset(option(body, "includeUppercase", TRUE),
                                   option(body, "includeNumbers", TRUE),
                                   option(body, "includeSymbols", TRUE))
        bytes == randomBytes(seed, stride, passwordLength(body))
    IN  [i \in 1..passwordLength(body) |-> pick(charset, bytes[i])]

\* The handler is synchronous and needs no session.
Generate(p, user, body, seed, stride) ==
    /\ Free(p)
    /\ Respond(p, Begin("generate", user, body, 0),
               Ok([password |-> generatePassword(body, seed, stride)]))
    /\ reqs' = reqs + 1
    /\ UNCHANGED <<file, sessions, now, rand, uuids, setups, created>>

NextGenerate ==
    \E p \in Procs, u \in Users, b \in GenerateBodies, seed \in Seeds, stride \in Strides :
        Generate(p, u, b, seed, stride)

\* The generator alone, on the fresh server.
SpecGenerate == InitFresh /\ [][NextGenerate]_vars

(* ------------------------------------ encryptData / decryptData alone *)

\* A call of decryptData: the plaintext it returns, or that it threw.
decrypt(encrypted, key, iv, authTag) ==
    IF decryptOk(encrypted, key, iv, authTag)
    THEN [threw |-> FALSE, plaintext |-> decryptData(encrypted, key, iv, authTag)]
    ELSE [threw |-> TRUE, plaintext |-> <<>>]

\* Arguments of the calls: entry lists, keys, ivs.
Plaintexts == {<<>>, <<FirstEntry>>}
Keys == {FirstKey, RacedKey}
Ivs == {2, 4}

\* What decryptData can be handed in place of a ciphertext and of a tag: the
\* value itself, the value with a bit flipped, and for a tag its first n bytes.
CipherTexts(c) == {c, [c EXCEPT !.ct = FALSE]}
AuthTags(t) == {t, [t EXCEPT !.tag = FALSE]} \cup {[t EXCEPT !.len = n] : n \in 1..16}

\* encryptData(data, key) drawing iv, then decryptData(encrypted, with, useIv,
\* authTag) on what it returned or on an altered copy of it.
DecryptCall(data, key, iv, with, useIv, encrypted, authTag) ==
    /\ encrypted \in CipherTexts(encryptData(data, key, iv).encrypted)
    /\ authTag \in AuthTags(encryptData(data, key, iv).authTag)
    /\ last' = [op |-> "decryptData", user |-> "none", id |-> 0,
                body |-> [data |-> data, key |-> key, iv |-> iv, with |-> with,
                          useIv |-> useIv, encrypted |-> encrypted, authTag |-> authTag],
                res |-> decrypt(encrypted, with, useIv, authTag)]
    /\ UNCHANGED <<file, sessions, now, proc, rand, uuids, reqs, setups, created>>

NextCipher ==
    \E data \in Plaintexts, key \in Keys, iv \in Ivs, with \in Keys, useIv \in Ivs :
        \E encrypted \in CipherTexts(encryptData(data, key, iv).encrypted),
           authTag \in AuthTags(encryptData(data, key, iv).authTag) :
            DecryptCall(data, key, iv, with, useIv, encrypted, authTag)

\* The two functions alone, on the fresh server.
SpecCipher == InitFresh /\ [][NextCipher]_vars

(* ------------------------------------------------- storage failures *)

\* fsp.readFile rejects (EACCES, EIO, EMFILE ...) on the file existsSync
\* found: loadPasswordVault gets no text, its catch logs and it returns null.
ReadFail(p) ==
    /\ proc[p].pc = "read"
    /\ file.exists
    /\ proc' = [proc EXCEPT ![p].pc = "loaded",
                            ![p].raw = [file EXCEPT !.vault = Null],
                            ![p].io = "read"]
    /\ UNCHANGED <<file, sessions, now, rand, uuids, reqs, last, setups, created>>

\* savePasswordVault rejects: fsp.mkdir or the open of fsp.writeFile fails
\* (the file is as it was), or the write after the open fails (ENOSPC: the
\* file stays truncated).
SaveFail(p) ==
    /\ proc[p].pc \in {"save", "write"}
    /\ proc' = [proc EXCEPT ![p].pc = "savefailed", ![p].io = "write"]
    /\ UNCHANGED <<file, sessions, now, rand, uuids, reqs, last, setups, created>>

\* create, update, delete: the rejection of `await savePasswordVault(vault)`
\* is caught by the catch of the decryption.
EntrySaveFailed(p) ==
    /\ proc[p].pc = "savefailed" /\ proc[p].op \in {"create", "update", "delete"}
    /\ sessions' = clearPasswordSession(sessions, proc[p].user)
    /\ Respond(p, proc[p], Err(401, "Encryption failed"))
    /\ UNCHANGED <<file, now, rand, uuids, reqs, setups, created>>

\* setup: `await savePasswordVault(vault)` is in no try, so the promise of
\* the handler rejects.  What follows is decided by the express and node
\* versions the server is run with, which the repository does not fix:
\* express 5 passes the rejection to its error handler, which answers 500;
\* express 4 ignores the promise, leaving an unhandled rejection, on which
\* node either only warns (the request is never answered) or exits (every
\* request in flight is dropped and the sessions are gone).
SetupSaveFailed(p) ==
    /\ proc[p].pc = "savefailed" /\ proc[p].op = "setup"
    /\ \/ /\ Respond(p, proc[p], Err(500, "Internal Server Error"))
          /\ sessions' = sessions
       \/ /\ Continue(p, [proc[p] EXCEPT !.pc = "unanswered"])
          /\ sessions' = sessions
       \/ /\ proc' = [q \in Procs |-> [proc[q] EXCEPT !.pc = "down"]]
          /\ last' = last
          /\ sessions' = [u \in Users |-> NoSession]
    /\ UNCHANGED <<file, now, rand, uuids, reqs, setups, created>>

\* A step of the handler in slot p, or of a file operation it waits for.
Step(p) ==
    \/ Read(p) \/ ReadFail(p) \/ Trunc(p) \/ Write(p) \/ SaveFail(p)
    \/ StatusAfterLoad(p) \/ SetupAfterLoad(p) \/ SetupAfterSave(p) \/ UnlockAfterLoad(p)
    \/ ListAfterLoad(p) \/ GetAfterLoad(p) \/ CreateAfterLoad(p) \/ UpdateAfterLoad(p)
    \/ DeleteAfterLoad(p) \/ EntryAfterSave(p) \/ EntrySaveFailed(p) \/ SetupSaveFailed(p)

NextFaulty ==
    \/ Next
    \/ \E p \in Procs : ReadFail(p)
    \/ \E p \in Procs : SaveFail(p)
    \/ \E p \in Procs : EntrySaveFailed(p)
    \/ \E p \in Procs : SetupSaveFailed(p)

\* The server on a disk whose operations can fail.  The thread pool completes
\* every file operation and the event loop runs every continuation that is
\* ready: a slot that can take a step eventually takes one.
SpecFaulty == Init /\ [][NextFaulty]_vars /\ \A p \in Procs : WF_vars(Step(p))

\* The server followed from the state two simultaneous setups leave.
SpecRaced == InitTwoSetups /\ [][Next]_vars

\* After the one-entry state alice sent lock and then unlock with a wrong
\* password, which was answered 401: the file is as it was and nobody has a
\* session.
FailedUnlock == Begin("unlock", "alice", [NoBody EXCEPT !.masterPassword = "short"], 0)
InitLockedOut ==
    /\ now = 0
    /\ file = Written(Truncated, reEncrypt(FirstVault, <<FirstEntry>>, FirstKey, 3))
    /\ sessions = clearPasswordSession(
                     setPasswordSession([u \in Users |-> NoSession], "alice", FirstKey),
                     "alice")
    /\ proc = [p \in Procs |-> Idle]
    /\ rand = 3
    /\ uuids = 1
    /\ reqs = 0
    /\ last = [op |-> "unlock", user |-> "alice", body |-> FailedUnlock.body, id |-> 0,
               res |-> Err(401, "Invalid master password")]
    /\ setups = 1
    /\ created = {1}

\* The server followed from its start and from the locked-out state.
SpecLocked == (InitFresh \/ InitLockedOut) /\ [][Next]_vars

(* ================================================================ claims *)

\* The record a load would return now, and the entry list it holds.
storedVault == loadPasswordVault(file)
storedEntries == IF storedVault = Null THEN <<>> ELSE storedVault.encryptedData.data

AllIdle == \A p \in Procs : proc[p].pc = "idle"

\* A request is accepted and answered in one step (its handler never awaits).
AnsweredAtOnce == reqs' = reqs + 1 /\ proc' = proc

\* The handler of slot p answers in this step, after an await.
Answers(p) == proc[p].pc # "idle" /\ proc'[p].pc = "idle"

\* A handler of create, update or delete that has loaded the vault, has its
\* new record ready and has not yet written it.
InReadModifyWrite(p) ==
    /\ proc[p].op \in {"create", "update", "delete"}
    /\ proc[p].pc \in {"save", "write"}

\* C1: when every request of a behaviour that starts with the one-entry vault
\* was a create that was answered with its entry, and all have returned,
\* every entry so answered is in the stored list.
CE_C1 ==
    (AllIdle /\ Cardinality(created) = reqs + 1) =>
        (storedVault # Null /\ created \subseteq entryIds(storedEntries))

\* C2: no two handlers of create, update or delete are at the same time
\* between their load of the vault and their write of it.
CE_C2 ==
    \A p, q \in Procs : (p # q) => ~(InReadModifyWrite(p) /\ InReadModifyWrite(q))

\* C3: once a setup has been answered {success: true}, every read of the file
\* by a load returns a complete record, never a missing or unparseable one.
CE_C3 ==
    [][\A p \in Procs :
          (proc[p].pc = "read" /\ proc'[p].pc = "loaded" /\ setups > 0) =>
              loadPasswordVault(proc'[p].raw) # Null]_vars

\* C4: a setup request accepted after a setup was answered {success: true}
\* never gets past the check for an existing vault.
CE_C4 ==
    \A p \in Procs :
        (proc[p].op = "setup" /\ proc[p].late) => proc[p].pc \in {"read", "loaded"}

\* C5: at most one setup request is ever answered {success: true}.
CE_C5 == setups <= 1

\* C6: a setup request whose masterPassword is missing or shorter than 8
\* characters is answered at once with status 400, and its step changes
\* neither the file nor the sessions, and draws no salt.
Thm_C6 ==
    [][(reqs' = reqs + 1) =>
          LET r == IF proc' = proc THEN last'
                   ELSE proc'[CHOOSE p \in Procs : proc'[p] # proc[p]]
          IN  (/\ r.op = "setup"
               /\ (r.body.masterPassword = "" \/ Len(r.body.masterPassword) < 8)) =>
                /\ AnsweredAtOnce
                /\ last'.res = Err(400, "Master password must be at least 8 characters")
                /\ UNCHANGED <<file, sessions, rand, setups>>]_vars

\* C6 witness: a short-password setup was refused while no vault exists and
\* nobody holds a session.
W_C6 ==
    /\ last.op = "setup"
    /\ last.body.masterPassword = "short"
    /\ last.res.status = 400
    /\ file = NoFile
    /\ \A u \in Users : ~sessions[u].present

\* C7: in the state right after a setup request of caller c is answered
\* {success: true}, a load returns a record that decrypts under the key of
\* c's session to the empty list, and c's session is live.
CE_C7 ==
    [][(setups' = setups + 1) =>
          LET c == last'.user
              v == loadPasswordVault(file')
          IN  /\ v # Null
              /\ sessions'[c].present
              /\ ~(now' > sessions'[c].expiresAt)
              /\ vaultDecrypts(v, sessions'[c].key)
              /\ vaultEntries(v, sessions'[c].key) = <<>>]_vars

\* C8: once a vault has been set up, an unlock request with a non-empty
\* password is answered {success: true}, with a session stored for its
\* caller, when the password is the one given at setup, and is answered
\* 401 "Invalid master password", with the sessions unchanged, otherwise.
CE_C8 ==
    [][\A p \in Procs :
          (Answers(p) /\ proc[p].op = "unlock" /\ setups > 0) =>
              IF proc[p].body.masterPassword = FirstSetup.body.masterPassword
              THEN /\ last'.res = Ok([success |-> TRUE])
                   /\ sessions'[proc[p].user].present
              ELSE /\ last'.res = Err(401, "Invalid master password")
                   /\ sessions' = sessions]_vars

\* C9: every unlock request with a non-empty password that fails is answered
\* the same way, 401 "Invalid master password", whether a vault exists or not.
CE_C9 ==
    (/\ last.op = "unlock"
     /\ last.body.masterPassword # ""
     /\ last.res.status # 200) => last.res = Err(401, "Invalid master password")

\* C10: a lock request is answered {success: true} at once in every state;
\* after its step the caller has no session and status would report
\* isUnlocked = false; nothing else changes, and a lock repeated in the state
\* it leaves would leave that state as it is.
Thm_C10 ==
    [][(AnsweredAtOnce /\ last'.op = "lock") =>
          LET c == last'.user
          IN  /\ last'.res = Ok([success |-> TRUE])
              /\ ~sessions'[c].present
              /\ sessionKey(sessions', now', c) = Null
              /\ \A u \in Users \ {c} : sessions'[u] = sessions[u]
              /\ clearPasswordSession(sessions', c) = sessions'
              /\ UNCHANGED <<file, now, rand, uuids, setups, created>>]_vars

\* C10 witness: the only request so far was alice's lock, on the vault she
\* had unlocked, and it removed her session.
W_C10 ==
    /\ reqs = 1
    /\ last.op = "lock"
    /\ last.user = "alice"
    /\ last.res.status = 200
    /\ storedVault # Null
    /\ ~sessions["alice"].present
\* The request accepted in this step (one with reqs' = reqs + 1): the one
\* just answered, or the one now in the slot that changed.
Arrived ==
    IF proc' = proc THEN last' ELSE proc'[CHOOSE p \in Procs : proc'[p] # proc[p]]

EntryOps == {"list", "get", "create", "update", "delete"}

\* C11: a session that setup or unlock stored at T0 and that is still in the
\* map is returned by the lookup at every instant up to and including
\* T0 + 5 minutes and is not returned after it; an entry request of its owner
\* arriving after T0 + 5 minutes is answered 401 'Vault locked' at once and
\* the session leaves the map, one arriving up to T0 + 5 minutes is not
\* answered 'Vault locked'.
Thm_C11 ==
    [][\A u \in Users :
          sessions[u].present =>
            LET T0 == sessions[u].storedAt
                live == now <= T0 + 5 * 60 * 1000
                mine == reqs' = reqs + 1 /\ Arrived.op \in EntryOps /\ Arrived.user = u
            IN  /\ live => sessionKey(sessions, now, u) = sessions[u].key
                /\ ~live => sessionKey(sessions, now, u) = Null
                /\ (mine /\ ~live) =>
                      /\ AnsweredAtOnce
                      /\ last'.res = Err(401, "Vault locked")
                      /\ ~sessions'[u].present
                /\ (mine /\ live) =>
                      /\ last'.res # Err(401, "Vault locked") \/ ~AnsweredAtOnce
                      /\ sessions'[u] = sessions[u]]_vars

\* The only request since the one-entry start is alice's list, one
\* millisecond after the five minutes of her session: locked and evicted.
W_C11 ==
    /\ reqs = 1 /\ setups = 1
    /\ now = 5 * 60 * 1000 + 1
    /\ last.op = "list" /\ last.user = "alice"
    /\ last.res = Err(401, "Vault locked")
    /\ ~sessions["alice"].present

\* C12: the expiry of a session is fixed when it is stored: a step after which
\* a user's session is in the map and differs from what the map held for that
\* user before is the successful answer of a setup or unlock of that user,
\* which sets the expiry five minutes after the present instant; no step of
\* status, list, get, create, update or delete changes the expiry of a session.
Thm_C12 ==
    [][\A u \in Users :
          (sessions'[u].present /\ sessions'[u] # sessions[u]) =>
            \E p \in Procs :
                /\ Answers(p)
                /\ proc[p].op \in {"setup", "unlock"}
                /\ proc[p].user = u
                /\ last'.res = Ok([success |-> TRUE])
                /\ sessions'[u].expiresAt = now + 5 * 60 * 1000]_vars

\* alice's list at the last instant of her session, stored at 0, is answered
\* with the entries, and the session still expires at that instant.
W_C12 ==
    /\ reqs = 1 /\ setups = 1
    /\ now = 5 * 60 * 1000
    /\ last.op = "list" /\ last.user = "alice" /\ last.res.status = 200
    /\ sessions["alice"].present
    /\ sessions["alice"].expiresAt = now

\* C13: a list, get, create, update or delete request of a caller who has no
\* live session (none in the map, or an expired one) is answered 401
\* 'Vault locked' at once, with no data, the file and the sessions of the
\* other callers left as they were, whatever those sessions are.
Thm_C13 ==
    [][(/\ reqs' = reqs + 1
        /\ Arrived.op \in EntryOps
        /\ sessionKey(sessions, now, Arrived.user) = Null) =>
          /\ AnsweredAtOnce
          /\ last'.res = Err(401, "Vault locked")
          /\ last'.res.data = Null
          /\ file' = file
          /\ ~sessions'[Arrived.user].present
          /\ \A u \in Users \ {Arrived.user} : sessions'[u] = sessions[u]]_vars

\* bob, who never unlocked, sent a complete create while alice was unlocked:
\* he is answered 'Vault locked' and the stored list is the one entry of alice.
W_C13 ==
    /\ last.op = "create" /\ last.user = "bob"
    /\ last.body.name = "GitHub" /\ last.body.password = "p@ss"
    /\ last.res = Err(401, "Vault locked")
    /\ sessionKey(sessions, now, "alice") # Null
    /\ storedEntries = <<FirstEntry>>

\* The state InitTwoSetups describes, as the fresh server reaches it (there
\* the two setups are the two requests counted).
TwoSetupsReached ==
    /\ file = Written(Truncated, RacedVault)
    /\ sessions["alice"] = [present |-> TRUE, key |-> FirstKey,
                            expiresAt |-> PASSWORDS_SESSION_EXPIRY, storedAt |-> 0]
    /\ sessions["bob"] = [present |-> TRUE, key |-> RacedKey,
                          expiresAt |-> PASSWORDS_SESSION_EXPIRY, storedAt |-> 0]
    /\ AllIdle /\ now = 0 /\ rand = 4 /\ uuids = 0 /\ setups = 2 /\ created = {}
    /\ last.op = "setup" /\ last.user = "bob" /\ last.res = Ok([success |-> TRUE])

\* The handler of slot p has loaded a vault record that its session key does
\* not decrypt: decipher.final() throws in its decryptData call.
DecryptionFails(p) ==
    LET v == loadPasswordVault(proc[p].raw)
    IN  /\ proc[p].pc = "loaded"
        /\ v # Null
        /\ ~decryptOk(v.encryptedData, proc[p].key, v.iv, v.authTag)

entryKeys(data) ==
    IF "entries" \in DOMAIN data
    THEN UNION {DOMAIN data.entries[i] : i \in 1..Len(data.entries)}
    ELSE IF "entry" \in DOMAIN data THEN DOMAIN data.entry
    ELSE {}

\* C15: the response of a request other than get has no `password` key, at
\* the top of its body or in any entry it carries, whatever the vault holds;
\* the 200 response of a get carries the entry with its password.
Thm_C15 ==
    /\ last.op \notin {"none", "get"} =>
          "password" \notin (DOMAIN last.res.data \cup entryKeys(last.res.data))
    /\ (last.op = "get" /\ last.res.status = 200) =>
          "password" \in DOMAIN last.res.data.entry

\* A list answered with the one stored entry, whose password is "p@ss".
W_C15 ==
    /\ last.op = "list" /\ last.res.status = 200
    /\ Len(last.res.data.entries) = 1
    /\ Len(storedEntries) = 1 /\ storedEntries[1].password = "p@ss"
    /\ last.res.data.entries[1].id = storedEntries[1].id

\* C16: a setup, unlock, list, get, create, update or delete one of whose
\* file operations failed reports the storage failure: its answer is a
\* server error (500), not a success, not 400 'Vault not set up', not a 401;
\* and a setup whose read failed does not go on to write a new vault as if
\* there were none.
CE_C16 ==
    [][\A p \in Procs :
          (/\ proc[p].io # "ok"
           /\ proc[p].op \in {"setup", "unlock", "list", "get", "create", "update", "delete"}) =>
             /\ Answers(p) => last'.res.status = 500
             /\ proc[p].io = "read" => proc'[p].pc # "save"]_vars

\* C17: every request a handler has taken up is eventually answered: a slot
\* that holds a request becomes idle again by answering it (a process that
\* has exited, or a handler left without continuation, never does).
CE_C17 == \A p \in Procs : (proc[p].pc # "idle") ~> (proc[p].pc = "idle")

Range(f) == {f[i] : i \in DOMAIN f}

\* C18: the password generated for an integer length has
\* min(max(length, 8), 128) characters, 8 for every length below 8 and 128
\* for every length above 128; with no length it has 16.
CE_C18 ==
    last.op = "generate" =>
        LET n == Len(last.res.data.password)
        IN  IF "length" \in DOMAIN last.body
            THEN n = (IF last.body.length < 8 THEN 8
                      ELSE IF last.body.length > 128 THEN 128
                      ELSE last.body.length)
            ELSE n = 16

\* C19: every character of a generated password is a lowercase letter or of
\* a class whose flag is true (a flag left out counts as true), so that with
\* the three flags false all characters are lowercase letters; no character
\* is undefined (every index taken is a position of the charset).
Thm_C19 ==
    last.op = "generate" =>
        LET on(k) == IF k \in DOMAIN last.body THEN last.body[k] ELSE TRUE
            allowed == Range(Lowercase)
                        \cup (IF on("includeUppercase") THEN Range(Uppercase) ELSE {})
                        \cup (IF on("includeNumbers") THEN Range(Digits) ELSE {})
                        \cup (IF on("includeSymbols") THEN Range(Symbols) ELSE {})
        IN  /\ last.res.status = 200
            /\ Len(last.res.data.password) >= 8
            /\ \A i \in 1..Len(last.res.data.password) :
                  /\ last.res.data.password[i] # Undefined
                  /\ last.res.data.password[i] \in allowed

\* {length: 12} with the three flags false: twelve lowercase letters, not all
\* the same.
W_C19 ==
    /\ last.op = "generate"
    /\ DOMAIN last.body = GenerateKeys
    /\ last.body.length = 12
    /\ ~last.body.includeUppercase /\ ~last.body.includeNumbers /\ ~last.body.includeSymbols
    /\ Len(last.res.data.password) = 12
    /\ Range(last.res.data.password) \subseteq Range(Lowercase)
    /\ Cardinality(Range(last.res.data.password)) > 1

\* C20: decryptData returns exactly the plaintext encryptData was given when
\* it is called with the key of that call and the iv, tag and ciphertext
\* that call returned; when the key is another one, or the ciphertext or the
\* tag is not what the call returned, it throws and returns no plaintext.
CE_C20 ==
    last.op = "decryptData" =>
        LET b == last.body
            enc == encryptData(b.data, b.key, b.iv)
        IN  /\ (/\ b.with = b.key /\ b.useIv = enc.iv
                 /\ b.encrypted = enc.encrypted /\ b.authTag = enc.authTag) =>
                   (~last.res.threw /\ last.res.plaintext = b.data)
            /\ (\/ b.with # b.key
                 \/ b.encrypted # enc.encrypted
                 \/ b.authTag # enc.authTag) =>
                   last.res.threw

\* The handler of slot p starts to replace the file (savePasswordVault opens
\* it) with the record it has built.  The stored list the claims below speak
\* of is the one in the file at that moment, when the file holds a record.
StartsSave(p) == proc[p].pc = "save" /\ proc'[p].pc = "write"

\* The list in the record the handler of slot p is about to write.
newEntries(p) == proc[p].vault.encryptedData.data

\* C21: a create with a name and a password replaces the stored list by that
\* list with one entry appended, whose id is none of the stored ones; a create
\* of an unlocked caller without a name or without a password is answered
\* with an error at once, the file and the caller's session left as they were.
CE_C21 ==
    [][/\ \A p \in Procs :
             (proc[p].op = "create" /\ StartsSave(p) /\ storedVault # Null) =>
                 /\ proc[p].entry.id \notin entryIds(storedEntries)
                 /\ newEntries(p) = Append(storedEntries, proc[p].entry)
       /\ (/\ reqs' = reqs + 1
           /\ Arrived.op = "create"
           /\ sessionKey(sessions, now, Arrived.user) # Null
           /\ (falsy(Arrived.body.name) \/ falsy(Arrived.body.password))) =>
             /\ AnsweredAtOnce
             /\ last'.res.status = 400
             /\ file' = file
             /\ sessions' = sessions]_vars

\* Entry e is entry old with exactly the fields of `body` assigned as the
\* update handler assigns them, and updatedAt possibly changed.
OnlySupplied(e, old, body) ==
    /\ e.id = old.id
    /\ e.createdAt = old.createdAt
    /\ e.name = (IF body.name # Undefined THEN body.name ELSE old.name)
    /\ e.password = (IF body.password # Undefined THEN body.password ELSE old.password)
    /\ e.username = (IF body.username # Undefined THEN body.username ELSE old.username)
    /\ (body.url = Undefined) => e.url = old.url
    /\ (body.notes = Undefined) => e.notes = old.notes

\* C22: an update of an id of the list replaces the stored list by a list of
\* the same length in which the entry with that id differs from the stored
\* one only in the supplied fields and updatedAt (id, createdAt and the fields
\* not supplied are the stored ones) and every other entry is the stored one.
CE_C22 ==
    [][\A p \in Procs :
          (proc[p].op = "update" /\ StartsSave(p) /\ storedVault # Null) =>
              /\ Len(newEntries(p)) = Len(storedEntries)
              /\ \A i \in 1..Len(newEntries(p)) :
                    IF storedEntries[i].id = proc[p].id
                    THEN OnlySupplied(newEntries(p)[i], storedEntries[i], proc[p].body)
                    ELSE newEntries(p)[i] = storedEntries[i]]_vars

\* C23: a delete of an id of the list replaces the stored list by that list
\* without the entry of that id, the other entries being the stored ones in
\* their order; and when the delete is answered with success, the stored list
\* has no entry of that id (a get of it finds none).
CE_C23 ==
    [][\A p \in Procs :
          /\ (proc[p].op = "delete" /\ StartsSave(p) /\ storedVault # Null) =>
                LET Other(e) == e.id # proc[p].id
                IN  newEntries(p) = SelectSeq(storedEntries, Other)
          /\ (proc[p].op = "delete" /\ Answers(p) /\ last'.res.status = 200) =>
                proc[p].id \notin entryIds(storedEntries')]_vars

\* C24: a get, update or delete that passed its session check and names an id
\* no entry ever had is answered 404 'Entry not found' and changes nothing:
\* its handler never comes to save, and its answer leaves the file and the
\* sessions as they were.
CE_C24 ==
    [][\A p \in Procs :
          (/\ proc[p].op \in {"get", "update", "delete"}
           /\ proc[p].id \notin 1..uuids) =>
              /\ proc'[p].pc \notin {"save", "write"}
              /\ Answers(p) =>
                    /\ last'.res = Err(404, "Entry not found")
                    /\ file' = file
                    /\ sessions' = sessions]_vars

ReadOnlyOps == {"status", "unlock", "lock", "list", "get"}

\* The state the locked-out state is reached in from the one-entry state.
LockedOutReached ==
    /\ last = [op |-> "unlock", user |-> "alice", body |-> FailedUnlock.body, id |-> 0,
               res |-> Err(401, "Invalid master password")]
    /\ file = Written(Truncated, reEncrypt(FirstVault, <<FirstEntry>>, FirstKey, 3))
    /\ sessions = [u \in Users |-> NoSession]
    /\ AllIdle /\ now = 0 /\ rand = 3 /\ uuids = 1 /\ setups = 1 /\ created = {1}

\* C25: no step of a status, unlock, lock, list or get request changes the
\* vault file, and a get that is answered 200 returns, password included, the
\* entry of the requested id of the record its load read; so an entry created
\* before a lock, a refused unlock and an accepted unlock is returned as it
\* was created.
Thm_C25 ==
    [][/\ \A p \in Procs :
             (proc[p].op \in ReadOnlyOps /\ proc'[p] # proc[p]) => file' = file
       /\ (reqs' = reqs + 1 /\ Arrived.op \in ReadOnlyOps) => file' = file
       /\ \A p \in Procs :
             (proc[p].op = "get" /\ Answers(p) /\ last'.res.status = 200) =>
                LET vault == loadPasswordVault(proc[p].raw)
                IN  /\ vault # Null
                    /\ last'.res.data.entry.id = proc[p].id
                    /\ \E i \in 1..Len(vault.encryptedData.data) :
                          vault.encryptedData.data[i] = last'.res.data.entry]_vars

\* After the lock and the refused unlock alice unlocked with the master
\* password and her get of entry 1 returned the entry as created, "p@ss"
\* included.
W_C25 ==
    /\ last.op = "get" /\ last.user = "alice" /\ last.id = 1
    /\ last.res = Ok([entry |-> FirstEntry])
    /\ FirstEntry.password = "p@ss"
    /\ sessions["alice"] # NoSession
    /\ file = Written(Truncated, reEncrypt(FirstVault, <<FirstEntry>>, FirstKey, 3))

\* The iv, authTag and encryptedData of `vault` come from one encryption
\* under `key`.
OneEncryption(vault, key) ==
    /\ vault.encryptedData = gcmCipher(vault.encryptedData.data, key, vault.iv)
    /\ vault.authTag = gcmTag(vault.encryptedData, key, vault.iv)

\* C26: every record that setup, create, update or delete builds has an iv
\* drawn in that step, different from the iv of the record it loaded, of
\* the stored record and of every record built before (all of which were
\* drawn earlier); its iv, authTag and encryptedData come from that one
\* encryption, and a write puts the three into the file together.
Thm_C26 ==
    [][/\ rand' >= rand
       /\ \A p \in Procs : proc[p].vault # Null => proc[p].vault.iv <= rand
       /\ storedVault # Null => storedVault.iv <= rand
       /\ \A p \in Procs :
             (proc[p].pc # "save" /\ proc'[p].pc = "save") =>
                LET new == proc'[p].vault
                    old == loadPasswordVault(proc[p].raw)
                IN  /\ new.iv > rand /\ new.iv <= rand'
                    /\ old # Null => new.iv # old.iv
                    /\ storedVault # Null => new.iv # storedVault.iv
                    /\ OneEncryption(new, proc'[p].key)
       /\ (file' # file /\ storedVault' # Null) =>
             \E p \in Procs :
                /\ proc[p].pc = "write"
                /\ storedVault' = proc[p].vault
                /\ OneEncryption(storedVault', proc[p].key)]_vars

\* An update under alice's key has replaced the record of the one-entry
\* vault: the stored iv is a later one than the iv 3 it had.
W_C26 ==
    /\ last.op = "update" /\ last.res.status = 200
    /\ storedVault # Null
    /\ storedVault.iv > 3
    /\ OneEncryption(storedVault, FirstKey)

\* C27: whenever no request is in progress, every caller whose session has
\* not expired has a stored record behind it, the session's key is the key
\* derived from the master password and the salt of that record, and the key
\* decrypts the stored payload.
CE_C27 ==
    AllIdle =>
        \A u \in Users :
            sessionKey(sessions, now, u) # Null =>
                /\ storedVault # Null
                /\ sessionKey(sessions, now, u)
                      = deriveKey(storedVault.masterPasswordHash.password, storedVault.salt)
                /\ vaultDecrypts(storedVault, sessionKey(sessions, now, u))

\* C28: as long as the answer {success: true} of a delete is the latest
\* answer the server gave, the entry of the id it named is not in the stored
\* list, whatever the handlers still in progress write.
CE_C28 ==
    (last.op = "delete" /\ last.res.status = 200) =>
        last.id \notin entryIds(storedEntries)

\* C29: every entry of the stored list has a non-empty name and a non-empty
\* password.
CE_C29 ==
    \A i \in 1..Len(storedEntries) :
        /\ ~falsy(storedEntries[i].name)
        /\ ~falsy(storedEntries[i].password)

\* C30: while the answer of a lock of a caller is the latest answer the
\* server gave (so the caller has not unlocked again), no create, update or
\* delete handler of that caller changes the vault file.
CE_C30 ==
    [][\A p \in Procs :
          (/\ last.op = "lock"
           /\ proc[p].user = last.user
           /\ proc[p].op \in {"create", "update", "delete"}
           /\ proc'[p] # proc[p]) => file' = file]_vars

====
